---- MODULE Spec2Model ----
(***************************************************************************)
(* Model of welnstar/collect_node: generate_index.js (the canonical        *)
(* script) and its earlier variant (src/unnamed/part_000).                 *)
(*                                                                         *)
(* A JavaScript string is modelled as a sequence of Unicode code points    *)
(* (integers); ToUTF16 gives its UTF-16 code units where the code works on *)
(* code units (Array.prototype.sort).  The fixed header and footer texts   *)
(* of the page, which contain no variable part, are one negative token     *)
(* each.  The file system is a finite set of nodes (tree) below the        *)
(* working directory plus the state of ./index.html (out).                 *)
(***************************************************************************)
EXTENDS Integers, Sequences, FiniteSets

VARIABLES tree, out, run, pc, stack, fileList, files, html, idx,
          shouldWrite, status, writes, readBack, visited, collected,
          walkFailed, out0, prevHtml, prevRun

vars == <<tree, out, run, pc, stack, fileList, files, html, idx,
          shouldWrite, status, writes, readBack, visited, collected,
          walkFailed, out0, prevHtml, prevRun>>

(* ---------------------------- bounds ----------------------------------- *)
MaxEntries == 3
MaxRuns == 2
MaxClock == 1

(* ------------------------- strings ------------------------------------- *)
RECURSIVE Flatten(_)
Flatten(ss) ==
    IF ss = <<>> THEN <<>> ELSE Head(ss) \o Flatten(Tail(ss))

\* UTF-16 code units of a code point (a surrogate pair above U+FFFF).
UTF16Units(c) ==
    IF c < 65536 THEN <<c>>
    ELSE <<55296 + ((c - 65536) \div 1024), 56320 + ((c - 65536) % 1024)>>

ToUTF16(s) == Flatten([i \in 1..Len(s) |-> UTF16Units(s[i])])

RECURSIVE SeqLess(_, _)
SeqLess(a, b) ==
    IF b = <<>> THEN FALSE
    ELSE IF a = <<>> THEN TRUE
    ELSE IF Head(a) # Head(b) THEN Head(a) < Head(b)
    ELSE SeqLess(Tail(a), Tail(b))

\* x < y by code points.
CodePointLess(x, y) == SeqLess(x, y)

\* x < y on JavaScript strings: by UTF-16 code units.
JsLess(x, y) == SeqLess(ToUTF16(x), ToUTF16(y))

StartsWithDot(s) == Len(s) >= 1 /\ s[1] = 46

EndsWith(s, suf) ==
    /\ Len(s) >= Len(suf)
    /\ SubSeq(s, Len(s) - Len(suf) + 1, Len(s)) = suf

\* Case folding of the regular expression's i flag, on the ASCII letters.
Lower(c) == IF c >= 65 /\ c <= 90 THEN c + 32 ELSE c
LowerStr(s) == [i \in 1..Len(s) |-> Lower(s[i])]

\* ".txt", ".md", ".json", ".csv", ".log", ".ini", ".xml", ".yaml", ".yml"
Whitelist ==
    { <<46,116,120,116>>, <<46,109,100>>, <<46,106,115,111,110>>,
      <<46,99,115,118>>, <<46,108,111,103>>, <<46,105,110,105>>,
      <<46,120,109,108>>, <<46,121,97,109,108>>, <<46,121,109,108>> }

\* The same list with ".html" added.
WhitelistWithHtml == Whitelist \cup { <<46,104,116,109,108>> }

\* /\.(txt|md|json|csv|log|ini|xml|yaml|yml)$/i.test(name)
ExtMatchWithHtml(name) ==
    \E suf \in WhitelistWithHtml : EndsWith(LowerStr(name), suf)

ExtMatch(name) == \E suf \in Whitelist : EndsWith(LowerStr(name), suf)

\* str.replace(/\\/g, '/')
ReplaceBackslash(s) == [i \in 1..Len(s) |-> IF s[i] = 92 THEN 47 ELSE s[i]]

\* path.join(dir, item) for dir = '.' or a normalized relative path.
PathJoin(dir, item) == IF dir = <<46>> THEN item ELSE dir \o <<47>> \o item

\* path.relative('.', fullPath).replace(/\\/g, '/'); a normalized relative
\* path below the working directory is its own path relative to '.'.
RelPath(fullPath) == ReplaceBackslash(fullPath)

\* The components of a path string, split at '/'.
RECURSIVE Split(_)
Split(p) ==
    IF p = <<>> THEN <<>>
    ELSE LET k == IF \E i \in 1..Len(p) : p[i] = 47
                  THEN CHOOSE i \in 1..Len(p) :
                         p[i] = 47 /\ \A j \in 1..(i-1) : p[j] # 47
                  ELSE Len(p) + 1
         IN <<SubSeq(p, 1, k - 1)>> \o
            (IF k >= Len(p) THEN <<>> ELSE Split(SubSeq(p, k + 1, Len(p))))

RECURSIVE JoinNames(_)
JoinNames(names) ==
    IF Len(names) = 1 THEN names[1]
    ELSE names[1] \o <<47>> \o JoinNames(Tail(names))

(* ------------------------- file system --------------------------------- *)
IndexName == <<105,110,100,101,120,46,104,116,109,108>>   \* "index.html"

File(p) == [path |-> p, kind |-> "file"]
Dir(p) == [path |-> p, kind |-> "dir"]

\* The entries a tree may hold.
Universe ==
    { File(<< <<66,46,77,68>> >>),                        \* B.MD
      File(<< <<46,101,46,108,111,103>> >>),              \* .e.log
      File(<< <<99,32,35,46,105,110,105>> >>),            \* "c #.ini"
      File(<< <<100,46,109,100,92,121,46,106,115,111,110>> >>), \* d.md\y.json
      File(<< <<65374,46,121,109,108>> >>),               \* U+FF5E .yml
      File(<< <<128512,46,121,97,109,108>> >>),           \* U+1F600 .yaml
      Dir(<< <<100,46,109,100>> >>),                      \* d.md/
      File(<< <<100,46,109,100>>, <<121,46,106,115,111,110>> >>), \* d.md/y.json
      Dir(<< <<46,103>> >>),                              \* .g/
      File(<< <<46,103>>, <<107,46,99,115,118>> >>),      \* .g/k.csv
      Dir(<< <<100,46,109,100>>, <<46,103>> >>),          \* d.md/.g/
      File(<< <<100,46,109,100>>, <<46,103>>, <<107,46,116,120,116>> >>) }
                                                          \* d.md/.g/k.txt

Parent(p) == SubSeq(p, 1, Len(p) - 1)

IsTree(t) ==
    \A n \in t : Len(n.path) > 1 => Dir(Parent(n.path)) \in t

RECURSIVE SubsetsUpTo(_, _)
SubsetsUpTo(S, k) ==
    IF k = 0 \/ S = {} THEN {{}}
    ELSE LET x == CHOOSE y \in S : TRUE
             rest == S \ {x}
         IN SubsetsUpTo(rest, k) \cup
            { T \cup {x} : T \in SubsetsUpTo(rest, k - 1) }

Trees == { t \in SubsetsUpTo(Universe, MaxEntries) : IsTree(t) }

Absent == [exists |-> FALSE, content |-> <<>>]
Present(text) == [exists |-> TRUE, content |-> text]

DirNames(dir) == IF dir = <<46>> THEN <<>> ELSE Split(dir)

\* The names fs.readdirSync(dir) returns, in no particular order.
Entries(t, o, dir) ==
    { n.path[Len(n.path)] : n \in { m \in t : Parent(m.path) = DirNames(dir) } }
    \cup (IF dir = <<46>> /\ o.exists THEN {IndexName} ELSE {})

\* fs.statSync(fullPath).isDirectory()
IsDirectory(t, fullPath) == Dir(Split(fullPath)) \in t

RECURSIVE Perms(_)
Perms(S) ==
    IF S = {} THEN {<<>>}
    ELSE UNION { { <<x>> \o p : p \in Perms(S \ {x}) } : x \in S }

(* ------------------------- sort (line 26) ------------------------------ *)
\* Array.prototype.sort() without a comparator orders strings by x < y.
SortLess(x, y) == JsLess(x, y)

\* Insert x behind every element that is not greater (a stable insertion).
RECURSIVE Insert(_, _)
Insert(x, sorted) ==
    IF sorted = <<>> THEN <<x>>
    ELSE IF SortLess(x, Head(sorted)) THEN <<x>> \o sorted
    ELSE <<Head(sorted)>> \o Insert(x, Tail(sorted))

RECURSIVE InsertionSort(_)
InsertionSort(arr) ==
    IF arr = <<>> THEN <<>>
    ELSE Insert(arr[Len(arr)], InsertionSort(SubSeq(arr, 1, Len(arr) - 1)))

ArraySortOmitted(arr) == arr

\* walk('.').sort()
ArraySort(arr) == InsertionSort(arr)

(* ------------------------- encodeURI (line 49) ------------------------- *)
IsAlnum(c) ==
    \/ c >= 48 /\ c <= 57
    \/ c >= 65 /\ c <= 90
    \/ c >= 97 /\ c <= 122

\* - _ . ! ~ * ' ( )
IsMark(c) == c \in {45, 95, 46, 33, 126, 42, 39, 40, 41}

\* ; / ? : @ & = + $ , #
IsReserved(c) == c \in {59, 47, 63, 58, 64, 38, 61, 43, 36, 44, 35}

\* The characters encodeURI leaves as they are.
UriUnescaped(c) == IsAlnum(c) \/ IsMark(c) \/ IsReserved(c)

UTF8(c) ==
    IF c < 128 THEN <<c>>
    ELSE IF c < 2048 THEN <<192 + (c \div 64), 128 + (c % 64)>>
    ELSE IF c < 65536 THEN
        <<224 + (c \div 4096), 128 + ((c \div 64) % 64), 128 + (c % 64)>>
    ELSE <<240 + (c \div 262144), 128 + ((c \div 4096) % 64),
           128 + ((c \div 64) % 64), 128 + (c % 64)>>

HexDigit(n) == IF n < 10 THEN 48 + n ELSE 55 + n

PercentByte(b) == <<37, HexDigit(b \div 16), HexDigit(b % 16)>>

PercentEncode(c) == Flatten([i \in 1..Len(UTF8(c)) |-> PercentByte(UTF8(c)[i])])

EncodeURI(s) ==
    Flatten([i \in 1..Len(s) |->
               IF UriUnescaped(s[i]) THEN <<s[i]>> ELSE PercentEncode(s[i])])

(* ------------------------- rendering (lines 28-56) --------------------- *)
HeaderText == << -1 >>      \* the fixed text of lines 28-46
FooterText == << -2 >>      \* the fixed text of lines 53-56

\* `    <li><a href="${encoded}">${file}</a></li>\n`
ListItem(file) ==
    <<32,32,32,32,60,108,105,62,60,97,32,104,114,101,102,61,34>>
    \o EncodeURI(file) \o <<34,62>> \o file
    \o <<60,47,97,62,60,47,108,105,62,10>>

\* The document is complete: its last piece is the footer's end.
Rendered == html # <<>> /\ html[Len(html)] \in {-2, -4}

(* ------------------------- writer (lines 59-74) ------------------------ *)
ExistsSyncNever(o) == FALSE

\* fs.existsSync(outputPath)
ExistsSync(o) == o.exists

NeedWriteAlways(existing, doc) == TRUE

\* shouldWrite after the comparison existing === html
NeedWrite(existing, doc) == existing # doc

WriteFileAppend(o, text) == Present(o.content \o text)

\* fs.writeFileSync(outputPath, html, 'utf8') replaces the whole content.
WriteFileSync(o, text) == Present(text)

(* ------------------------- exceptions ---------------------------------- *)
WalkRetry(pcNow) == pcNow

\* An exception of readdirSync or statSync inside walk has no handler: the
\* process ends with the error.
WalkThrow(pcNow) == "error"

(* ------------------------- initial state ------------------------------- *)
NoDoc == [some |-> FALSE, text |-> <<>>]
SomeDoc(text) == [some |-> TRUE, text |-> text]

\* ./index.html before the first run: absent, empty, or an index of no file.
InitialOut == { Absent, Present(<<>>), Present(HeaderText \o FooterText) }

Init ==
    /\ tree \in Trees
    /\ out \in InitialOut
    /\ run = 1
    /\ pc = "start"
    /\ stack = <<>>
    /\ fileList = <<>>
    /\ files = <<>>
    /\ html = <<>>
    /\ idx = 0
    /\ shouldWrite = TRUE
    /\ status = <<>>
    /\ writes = 0
    /\ readBack = FALSE
    /\ visited = {}
    /\ collected = {}
    /\ walkFailed = FALSE
    /\ out0 = out
    /\ prevHtml = NoDoc
    /\ prevRun = "none"

Top == stack[Len(stack)]

Fail ==
    /\ pc' = WalkThrow(pc)
    /\ walkFailed' = TRUE
    /\ UNCHANGED <<tree, out, run, stack, fileList, files, html, idx,
                   shouldWrite, status, writes, readBack, visited, collected,
                   out0, prevHtml, prevRun>>

\* walk('.') is called: readdirSync('.') (lines 26, 5-6).
WalkRoot ==
    /\ pc = "start"
    /\ \/ Fail
       \/ /\ \E order \in Perms(Entries(tree, out, <<46>>)) :
                stack' = <<[dir |-> <<46>>, items |-> order]>>
          /\ visited' = visited \cup {<<46>>}
          /\ pc' = "walk"
          /\ UNCHANGED <<tree, out, run, fileList, files, html, idx,
                         shouldWrite, status, writes, readBack, collected,
                         walkFailed, out0, prevHtml, prevRun>>

\* One iteration of the for loop (lines 7-22).
WalkItem ==
    /\ pc = "walk"
    /\ Top.items # <<>>
    /\ LET item == Head(Top.items)
           popped == [stack EXCEPT ![Len(stack)].items = Tail(Top.items)]
           fullPath == PathJoin(Top.dir, item)
           relPath == RelPath(fullPath)
       IN IF StartsWithDot(item)
          THEN /\ stack' = popped
               /\ UNCHANGED <<tree, out, run, pc, fileList, files, html, idx,
                              shouldWrite, status, writes, readBack, visited,
                              collected, walkFailed, out0, prevHtml, prevRun>>
          ELSE \/ Fail       \* statSync throws, or readdirSync in the call
               \/ /\ IF IsDirectory(tree, fullPath)
                     THEN /\ \E order \in Perms(Entries(tree, out, fullPath)) :
                               stack' = Append(popped,
                                          [dir |-> fullPath, items |-> order])
                          /\ visited' = visited \cup {fullPath}
                          /\ UNCHANGED <<fileList, collected>>
                     ELSE IF ExtMatch(item)
                     THEN /\ fileList' = Append(fileList, relPath)
                          /\ collected' = collected \cup {fullPath}
                          /\ stack' = popped
                          /\ UNCHANGED visited
                     ELSE /\ stack' = popped
                          /\ UNCHANGED <<fileList, collected, visited>>
                  /\ UNCHANGED <<tree, out, run, pc, files, html, idx,
                                 shouldWrite, status, writes, readBack,
                                 walkFailed, out0, prevHtml, prevRun>>

\* The loop of a call is over: return fileList (line 23).
WalkReturn ==
    /\ pc = "walk"
    /\ Top.items = <<>>
    /\ stack' = SubSeq(stack, 1, Len(stack) - 1)
    /\ pc' = IF Len(stack) = 1 THEN "sort" ELSE "walk"
    /\ UNCHANGED <<tree, out, run, fileList, files, html, idx, shouldWrite,
                   status, writes, readBack, visited, collected, walkFailed,
                   out0, prevHtml, prevRun>>

\* const files = walk('.').sort(); let html = `...` (lines 26-46).
Sort ==
    /\ pc = "sort"
    /\ files' = ArraySort(fileList)
    /\ fileList' = files'          \* sort() sorts the array in place
    /\ html' = HeaderText
    /\ idx' = 1
    /\ pc' = "render"
    /\ UNCHANGED <<tree, out, run, stack, shouldWrite, status,
                   writes, readBack, visited, collected, walkFailed, out0,
                   prevHtml, prevRun>>

\* One call of the forEach callback (lines 48-51).
RenderItem ==
    /\ pc = "render"
    /\ idx <= Len(files)
    /\ html' = html \o ListItem(files[idx])
    /\ idx' = idx + 1
    /\ UNCHANGED <<tree, out, run, pc, stack, fileList, files, shouldWrite,
                   status, writes, readBack, visited, collected, walkFailed,
                   out0, prevHtml, prevRun>>

\* html += footer (lines 53-56).
RenderClose ==
    /\ pc = "render"
    /\ idx > Len(files)
    /\ html' = html \o FooterText
    /\ pc' = "compare"
    /\ UNCHANGED <<tree, out, run, stack, fileList, files, idx, shouldWrite,
                   status, writes, readBack, visited, collected, walkFailed,
                   out0, prevHtml, prevRun>>

\* Lines 59-67: compare with the existing file, if there is one.
Compare ==
    /\ pc = "compare"
    /\ IF ExistsSync(out)
       THEN \/ /\ pc' = "error"          \* readFileSync throws
               /\ UNCHANGED <<shouldWrite, status, readBack>>
            \/ /\ readBack' = TRUE
               /\ shouldWrite' = NeedWrite(out.content, html)
               /\ status' = IF shouldWrite' THEN status
                            ELSE Append(status, <<"unchanged">>)
               /\ pc' = "write"
       ELSE /\ shouldWrite' = TRUE
            /\ pc' = "write"
            /\ UNCHANGED <<status, readBack>>
    /\ UNCHANGED <<tree, out, run, stack, fileList, files, html, idx, writes,
                   visited, collected, walkFailed, out0, prevHtml, prevRun>>

\* Lines 69-74.
Write ==
    /\ pc = "write"
    /\ IF shouldWrite
       THEN /\ writes' = writes + 1
            /\ \/ /\ out' = WriteFileSync(out, html)
                  /\ status' = Append(status, <<"updated", Len(files)>>)
                  /\ pc' = "done"
               \/ /\ out' \in {out, Present(<<>>)}   \* writeFileSync throws
                  /\ pc' = "error"
                  /\ UNCHANGED status
       ELSE /\ status' = Append(status, <<"count", Len(files)>>)
            /\ pc' = "done"
            /\ UNCHANGED <<out, writes>>
    /\ UNCHANGED <<tree, run, stack, fileList, files, html, idx, shouldWrite,
                   readBack, visited, collected, walkFailed, out0, prevHtml,
                   prevRun>>

\* The script is started again on the file system the last run left.
NextRun ==
    /\ pc \in {"done", "error"}
    /\ run < MaxRuns
    /\ run' = run + 1
    /\ prevHtml' = IF Rendered THEN SomeDoc(html) ELSE prevHtml
    /\ prevRun' = IF pc = "error" THEN "error"
                   ELSE IF out0.exists THEN "done" ELSE "created"
    /\ out0' = out
    /\ pc' = "start"
    /\ stack' = <<>>
    /\ fileList' = <<>>
    /\ files' = <<>>
    /\ html' = <<>>
    /\ idx' = 0
    /\ shouldWrite' = TRUE
    /\ status' = <<>>
    /\ writes' = 0
    /\ readBack' = FALSE
    /\ visited' = {}
    /\ collected' = {}
    /\ walkFailed' = FALSE
    /\ UNCHANGED <<tree, out>>

Next ==
    \/ WalkRoot
    \/ WalkItem
    \/ WalkReturn
    \/ Sort
    \/ RenderItem
    \/ RenderClose
    \/ Compare
    \/ Write
    \/ NextRun

Spec == Init /\ [][Next]_vars

(***************************************************************************)
(* The earlier variant of the script (src/unnamed/part_000): no check for  *)
(* hidden names, a result array per call, a time stamp in the footer and   *)
(* an unconditional write.                                                 *)
(***************************************************************************)
\* fullPath.replace(/^\.\/?/, '')
StripDotSlash(s) ==
    IF Len(s) >= 1 /\ s[1] = 46
    THEN IF Len(s) >= 2 /\ s[2] = 47 THEN SubSeq(s, 3, Len(s))
         ELSE SubSeq(s, 2, Len(s))
    ELSE s

\* The footer with new Date().toLocaleString('zh-CN'), t the clock's reading.
VariantFooter(t) == << -3, -(100 + t), -4 >>

VWalkRoot ==
    /\ pc = "start"
    /\ \/ Fail
       \/ /\ \E order \in Perms(Entries(tree, out, <<46>>)) :
                stack' = <<[dir |-> <<46>>, items |-> order, results |-> <<>>]>>
          /\ visited' = visited \cup {<<46>>}
          /\ pc' = "walk"
          /\ UNCHANGED <<tree, out, run, fileList, files, html, idx,
                         shouldWrite, status, writes, readBack, collected,
                         walkFailed, out0, prevHtml, prevRun>>

\* One call of the list.forEach callback (lines 11-23).
VWalkItem ==
    /\ pc = "walk"
    /\ Top.items # <<>>
    /\ LET file == Head(Top.items)
           popped == [stack EXCEPT ![Len(stack)].items = Tail(Top.items)]
           fullPath == PathJoin(Top.dir, file)
       IN \/ Fail
          \/ /\ IF IsDirectory(tree, fullPath)
                THEN /\ \E order \in Perms(Entries(tree, out, fullPath)) :
                          stack' = Append(popped,
                                     [dir |-> fullPath, items |-> order,
                                      results |-> <<>>])
                     /\ visited' = visited \cup {fullPath}
                     /\ UNCHANGED collected
                ELSE IF ExtMatch(file)
                THEN /\ stack' = [popped EXCEPT ![Len(stack)].results =
                                    Append(@, StripDotSlash(fullPath))]
                     /\ collected' = collected \cup {fullPath}
                     /\ UNCHANGED visited
                ELSE /\ stack' = popped
                     /\ UNCHANGED <<collected, visited>>
             /\ UNCHANGED <<tree, out, run, pc, fileList, files, html, idx,
                            shouldWrite, status, writes, readBack,
                            walkFailed, out0, prevHtml, prevRun>>

\* return results; the caller concatenates them to its own (lines 15, 24).
VWalkReturn ==
    /\ pc = "walk"
    /\ Top.items = <<>>
    /\ IF Len(stack) = 1
       THEN /\ fileList' = Top.results
            /\ stack' = <<>>
            /\ pc' = "sort"
       ELSE /\ stack' = [SubSeq(stack, 1, Len(stack) - 1)
                           EXCEPT ![Len(stack) - 1].results = @ \o Top.results]
            /\ UNCHANGED <<fileList, pc>>
    /\ UNCHANGED <<tree, out, run, files, html, idx, shouldWrite,
                   status, writes, readBack, visited, collected, walkFailed,
                   out0, prevHtml, prevRun>>

\* html += footer with the time stamp (lines 54-57).
VRenderClose ==
    /\ pc = "render"
    /\ idx > Len(files)
    /\ \E t \in 0..MaxClock : html' = html \o VariantFooter(t)
    /\ pc' = "write"
    /\ UNCHANGED <<tree, out, run, stack, fileList, files, idx, shouldWrite,
                   status, writes, readBack, visited, collected, walkFailed,
                   out0, prevHtml, prevRun>>

\* fs.writeFileSync(outputFile, html); console.log (lines 59-60).
VWrite ==
    /\ pc = "write"
    /\ writes' = writes + 1
    /\ \/ /\ out' = WriteFileSync(out, html)
          /\ status' = Append(status, <<"generated", Len(files)>>)
          /\ pc' = "done"
       \/ /\ out' \in {out, Present(<<>>)}
          /\ pc' = "error"
          /\ UNCHANGED status
    /\ UNCHANGED <<tree, run, stack, fileList, files, html, idx, shouldWrite,
                   readBack, visited, collected, walkFailed, out0, prevHtml,
                   prevRun>>

NextVariant ==
    \/ VWalkRoot
    \/ VWalkItem
    \/ VWalkReturn
    \/ Sort
    \/ RenderItem
    \/ VRenderClose
    \/ VWrite
    \/ NextRun

SpecVariant == Init /\ [][NextVariant]_vars

(***************************************************************************)
(*                              Properties                                 *)
(***************************************************************************)
Range(f) == { f[i] : i \in DOMAIN f }

NoHiddenName(names) == \A i \in 1..Len(names) : ~StartsWithDot(names[i])

\* Every file below the working directory, index.html included.
AllFiles ==
    { n \in tree : n.kind = "file" }
    \cup (IF out.exists THEN {File(<<IndexName>>)} ELSE {})

\* The files the filter is to keep.
Wanted ==
    { n \in AllFiles :
        /\ \E suf \in Whitelist :
              EndsWith(LowerStr(n.path[Len(n.path)]), suf)
        /\ NoHiddenName(n.path) }

\* C1: when walk('.') has returned, its result holds exactly the
\* forward-slash relative paths of the non-hidden whitelisted files that lie
\* under no hidden directory, each file once.
FilterCorrectness ==
    pc = "sort" =>
        /\ Range(fileList) = { JoinNames(n.path) : n \in Wanted }
        /\ Len(fileList) = Cardinality(Wanted)
        /\ Cardinality(Range(fileList)) = Len(fileList)

StatusUnchanged == status = << <<"unchanged">>, <<"count", Len(files)>> >>
StatusUpdated == status = << <<"updated", Len(files)>> >>

\* C2: a completed run that found index.html with exactly the rendered text
\* made no write call, left the file as it was and reported "unchanged".
IdempotentWrite ==
    (pc = "done" /\ out0.exists /\ out0.content = html) =>
        /\ writes = 0
        /\ out = out0
        /\ StatusUnchanged

IdempotentWriteWitness ==
    /\ pc = "done"
    /\ out0.exists
    /\ out0.content = html
    /\ Len(files) >= 1
    /\ writes = 0

\* C3: after a completed run index.html holds exactly the rendered document;
\* when the file was absent or different it was replaced by one write.
WriterPostState ==
    pc = "done" =>
        /\ out = Present(html)
        /\ (~out0.exists \/ out0.content # html) =>
              (writes = 1 /\ StatusUpdated)

WriterPostStateWitness ==
    /\ pc = "done"
    /\ out0.exists
    /\ out0.content # <<>>
    /\ out0.content # html
    /\ out = Present(html)

\* The page as the list items of a sequence of paths.
DocOf(paths) ==
    HeaderText \o Flatten([i \in 1..Len(paths) |-> ListItem(paths[i])])
    \o FooterText

\* The paths pushed by walk, as a set.
CollectedPaths == { ReplaceBackslash(f) : f \in collected }

ListsCollected ==
    /\ html = DocOf(files)
    /\ Range(files) = CollectedPaths
    /\ Len(files) = Cardinality(collected)

EncodeKeepingSlash(s) ==
    Flatten([i \in 1..Len(s) |->
               IF IsAlnum(s[i]) \/ IsMark(s[i]) \/ s[i] = 47
               THEN <<s[i]>> ELSE PercentEncode(s[i])])

ItemKeepingSlash(file) ==
    <<32,32,32,32,60,108,105,62,60,97,32,104,114,101,102,61,34>>
    \o EncodeKeepingSlash(file) \o <<34,62>> \o file
    \o <<60,47,97,62,60,47,108,105,62,10>>

\* C5: every list item's href is the path with every reserved or unsafe
\* character except '/' percent-encoded, and its text is the raw path.
LinkEncoding ==
    (pc \in {"compare", "write", "done"}) =>
        html = HeaderText
               \o Flatten([i \in 1..Len(files) |-> ItemKeepingSlash(files[i])])
               \o FooterText

\* C6: the variant's walk reads no directory with a hidden name on its path
\* and collects no file that is hidden or lies under a hidden directory.
VariantHiddenExclusion ==
    /\ \A d \in visited : NoHiddenName(DirNames(d))
    /\ \A f \in collected : NoHiddenName(Split(f))

\* C7: a run renders the same document as the run before it on the same
\* tree, whatever order the directory listings came in.
Determinism ==
    (pc \in {"compare", "write", "done"} /\ prevHtml.some) =>
        html = prevHtml.text

DeterminismWitness ==
    /\ pc = "compare"
    /\ prevHtml.some
    /\ Len(files) >= 2
    /\ html = prevHtml.text

\* C8: once readdirSync or statSync has failed during the traversal, the run
\* is in the error state, nothing was sorted or rendered from the partial
\* result, and index.html is as it was when the run began.
AbortWithoutPartialOutput ==
    walkFailed =>
        /\ pc = "error"
        /\ files = <<>>
        /\ html = <<>>
        /\ status = <<>>
        /\ writes = 0
        /\ out = out0

AbortWitness ==
    /\ walkFailed
    /\ pc = "error"
    /\ fileList # <<>>
    /\ out0.exists

WriteState ==
    /\ writes <= 1
    /\ pc \in {"start", "walk", "sort", "render", "compare", "write"} =>
          (writes = 0 /\ out = out0)

WriteStep ==
    /\ tree' = tree
    /\ (run' = run /\ (writes' # writes \/ out' # out)) =>
          /\ pc = "write"
          /\ writes = 0 /\ writes' = 1
          /\ stack = <<>>
          /\ html = DocOf(files)
          /\ out.exists => readBack

\* C9: a run makes at most one write; it changes nothing but index.html and
\* comes after the traversal, the sort, the rendering and the reading of the
\* existing file; the traversal writes nothing.
WriteBoundAndOrder == []WriteState /\ [][WriteStep]_vars

WriteBoundWitness ==
    /\ pc = "done"
    /\ writes = 1
    /\ out0.exists
    /\ readBack

\* C10: a run that follows a completed run renders the same document, makes
\* no write and reports "unchanged"; index.html itself is never collected.
FixedPoint ==
    (pc = "done" /\ prevRun \in {"done", "created"}) =>
        /\ prevHtml = SomeDoc(html)
        /\ writes = 0
        /\ out = out0
        /\ StatusUnchanged
        /\ IndexName \notin collected

FixedPointWitness ==
    /\ pc = "done"
    /\ prevRun = "created"
    /\ Len(files) >= 1
    /\ writes = 0
    /\ IndexName \in Entries(tree, out, <<46>>)

====
